---- MODULE Spec2Model ----
(***************************************************************************)
(* The rate limiter of pages/2_AI_Chatbot.py (class RateLimiter) and the   *)
(* retry loop that drives it (get_ai_response).                            *)
(*                                                                         *)
(* Time is an integer number of milliseconds since midnight of day 0.      *)
(* datetime.now() is the variable now; time.sleep(s) and the latency of    *)
(* the underlying call advance it.  A duration the code holds in seconds   *)
(* (a RATE_LIMITS entry, a timedelta's .seconds) is multiplied by MS where *)
(* it meets a time.  All delays the code computes (10 * 2.5^k, 0.3 * base) *)
(* are whole numbers of milliseconds wherever they are below max_backoff.  *)
(*                                                                         *)
(* can_make_request() and the record_request() that follows it on line 360 *)
(* read the clock one after the other with nothing in between that blocks; *)
(* they are one step at one time.  check_network_connectivity() touches no *)
(* field of the limiter and is left out.  The fields last_error_time,      *)
(* last_network_error_time, last_rate_limit_time and network_errors are    *)
(* written as in the code although get_ai_response never reads them.       *)
(***************************************************************************)
EXTENDS Integers, Sequences, FiniteSets, TLC

(***************************************************************************)
(* Bounds of the model.                                                    *)
(***************************************************************************)
\* The loop body of get_ai_response is entered at most this many times in a
\* behaviour, all invocations together.
MaxAttempts == 4
\* The same, when the service answers every call with a response or a 429.
MaxRateLimitedAttempts == 7
\* Methods of one limiter are called on their own at most this many times.
MaxCalls == 3
\* The largest attempt number passed to get_network_backoff_time on its own.
MaxAttemptArg == 3
\* Methods of the two limiter classes are called side by side at most this
\* many times.
MaxVariantCalls == 5
\* The script of the chart is followed until its catch clause has scheduled
\* initChart this many times; one more than MAX_ATTEMPTS.
MaxScheduled == 51
\* RATE_LIMITS["requests_per_minute"] is 3 and RATE_LIMITS["requests_per_day"]
\* is 50 in the page; the limits are parameters of the limiter
\* (utils/rate_limiter.py takes them at construction) and the model runs with
\* small ones so that both limits are reached.
requests_per_minute == 2
requests_per_day == 3

(***************************************************************************)
(* Program constants.                                                      *)
(***************************************************************************)
\* milliseconds per second: the resolution of the model's clock
MS == 1000
\* a timedelta's .seconds is the remainder below one day
SecondsPerDay == 86400
\* the None of last_*_time and cooldown_end_time
None == -1

\* backoff_factor 2.5 and jitter_factor 0.3 are kept as fractions
RATE_LIMITS ==
    [ requests_per_minute         |-> requests_per_minute,
      requests_per_day            |-> requests_per_day,
      retry_delay                 |-> 60,
      network_retry_delay         |-> 10,
      max_backoff                 |-> 120,
      backoff_factor              |-> <<5, 2>>,
      jitter_factor               |-> <<3, 10>>,
      cooldown_period             |-> 300,
      service_unavailable_backoff |-> 15,
      max_network_retries         |-> 5 ]

\* get_ai_response(model, prompt, max_retries=3): the page calls it with the
\* default; 2 is a second value of the parameter.
MaxRetriesChoices == {2, 3}

\* Time passing between two questions of the user, in seconds: half a
\* minute, a minute, a day, a day and half a minute.
Deltas == {30, 60, SecondsPerDay, SecondsPerDay + 30}

\* Time the underlying call takes before it returns or raises, in ms.
Latencies == {2 * MS}

Min(a, b) == IF a <= b THEN a ELSE b
Max(a, b) == IF a >= b THEN a ELSE b

\* random.uniform(lo, hi): the draws the model follows
Uniform(lo, hi) == {lo, hi}

\* datetime.date() of a time
Date(t) == t \div (SecondsPerDay * MS)

\* timedelta.seconds of a difference d of two times: the seconds component,
\* 0 .. 86399, the days dropped (not total_seconds()).
TimedeltaSeconds(d) == (d % (SecondsPerDay * MS)) \div MS

(***************************************************************************)
(* class RateLimiter                                                       *)
(***************************************************************************)
\* RateLimiter.__init__ at time t
NewRateLimiter(t) ==
    [ last_request_time          |-> t - 60 * MS,
      requests_this_minute       |-> 0,
      requests_today             |-> 0,
      day_start                  |-> Date(t),
      last_error_time            |-> None,
      network_errors             |-> 0,
      last_network_error_time    |-> None,
      consecutive_network_errors |-> 0,
      rate_limit_errors          |-> 0,
      last_rate_limit_time       |-> None,
      in_cooldown                |-> FALSE,
      cooldown_end_time          |-> None ]

\* CooldownActive with the comparison of the times turned around
CooldownActive_Inverted(L, t) ==
    L.in_cooldown /\ L.cooldown_end_time # None /\ t > L.cooldown_end_time

\* can_make_request, lines 46-47: a cooldown is set and has not ended
CooldownActive(L, t) ==
    L.in_cooldown /\ L.cooldown_end_time # None /\ t < L.cooldown_end_time

\* EndCooldown that also starts both counters afresh
EndCooldown_ResetsCounters(L) ==
    IF L.in_cooldown /\ L.cooldown_end_time # None
    THEN [L EXCEPT !.in_cooldown = FALSE, !.cooldown_end_time = None,
                   !.requests_this_minute = 0, !.requests_today = 0]
    ELSE L

\* EndCooldown that leaves the end time of the cooldown in place
EndCooldown_KeepsEndTime(L) ==
    IF L.in_cooldown /\ L.cooldown_end_time # None
    THEN [L EXCEPT !.in_cooldown = FALSE]
    ELSE L

\* can_make_request, lines 46-53: the cooldown has ended and is cleared
EndCooldown(L) ==
    IF L.in_cooldown /\ L.cooldown_end_time # None
    THEN [L EXCEPT !.in_cooldown = FALSE, !.cooldown_end_time = None]
    ELSE L

\* can_make_request, lines 55-58
RolloverDay(L, t) ==
    IF Date(t) # L.day_start
    THEN [L EXCEPT !.requests_today = 0, !.day_start = Date(t)]
    ELSE L

\* RolloverMinute with a window of half a minute
RolloverMinute_HalfWindow(L, t) ==
    IF TimedeltaSeconds(t - L.last_request_time) >= 30
    THEN [L EXCEPT !.requests_this_minute = 0]
    ELSE L

\* can_make_request, lines 60-62
RolloverMinute(L, t) ==
    IF TimedeltaSeconds(t - L.last_request_time) >= 60
    THEN [L EXCEPT !.requests_this_minute = 0]
    ELSE L

\* WithinLimits that is content with room in one of the two windows
WithinLimits_EitherWindow(L) ==
    \/ L.requests_this_minute < RATE_LIMITS.requests_per_minute
    \/ L.requests_today < RATE_LIMITS.requests_per_day

\* WithinLimits that admits one request more per minute
WithinLimits_MinuteInclusive(L) ==
    /\ L.requests_this_minute <= RATE_LIMITS.requests_per_minute
    /\ L.requests_today < RATE_LIMITS.requests_per_day

\* WithinLimits that admits one request more per day
WithinLimits_DayInclusive(L) ==
    /\ L.requests_this_minute < RATE_LIMITS.requests_per_minute
    /\ L.requests_today <= RATE_LIMITS.requests_per_day

\* can_make_request, lines 64-65
WithinLimits(L) ==
    /\ L.requests_this_minute < RATE_LIMITS.requests_per_minute
    /\ L.requests_today < RATE_LIMITS.requests_per_day

\* can_make_request that makes the day rollover before it looks at the
\* cooldown
CanMakeRequest_RollsOverFirst(L, t) ==
    LET L1 == RolloverDay(L, t)
    IN  IF CooldownActive(L1, t)
        THEN [ret |-> FALSE, rl |-> L1]
        ELSE LET L3 == RolloverMinute(EndCooldown(L1), t)
             IN  [ret |-> WithinLimits(L3), rl |-> L3]

\* can_make_request at time t: the value returned and the limiter it leaves
CanMakeRequest(L, t) ==
    IF CooldownActive(L, t)
    THEN [ret |-> FALSE, rl |-> L]
    ELSE LET L3 == RolloverMinute(RolloverDay(EndCooldown(L), t), t)
         IN  [ret |-> WithinLimits(L3), rl |-> L3]

\* record_request that counts the request in the minute window only
RecordRequest_MinuteOnly(L, t) ==
    [L EXCEPT !.requests_this_minute = @ + 1,
              !.last_request_time = t]

\* record_request that first makes the rollover checks of can_make_request
RecordRequest_WithRollover(L, t) ==
    LET L3 == RolloverMinute(RolloverDay(L, t), t)
    IN  [L3 EXCEPT !.requests_this_minute = @ + 1,
                   !.requests_today = @ + 1,
                   !.last_request_time = t]

\* record_request at time t
RecordRequest(L, t) ==
    [L EXCEPT !.requests_this_minute = @ + 1,
              !.requests_today = @ + 1,
              !.last_request_time = t]

\* CooldownTime without the cap of the multiplier
CooldownTime_Uncapped(L) ==
    RATE_LIMITS.cooldown_period * L.rate_limit_errors

\* record_error, lines 87-88
CooldownTime(L) ==
    RATE_LIMITS.cooldown_period * Min(L.rate_limit_errors, 5)

\* record_error that takes an error of another type for a recovery and
\* ends the cooldown
RecordError_OtherEndsCooldown(L, t, error_type) ==
    LET L0 == [L EXCEPT !.last_error_time = t]
    IN  IF error_type = "network"
        THEN [L0 EXCEPT !.network_errors = @ + 1,
                        !.last_network_error_time = t,
                        !.consecutive_network_errors = @ + 1]
        ELSE IF error_type = "rate_limit"
        THEN LET L1 == [L0 EXCEPT !.rate_limit_errors = @ + 1,
                                  !.last_rate_limit_time = t]
             IN  [L1 EXCEPT !.in_cooldown = TRUE,
                            !.cooldown_end_time = t + CooldownTime(L1) * MS]
        ELSE [L0 EXCEPT !.consecutive_network_errors = 0,
                        !.in_cooldown = FALSE,
                        !.cooldown_end_time = None]

\* record_error(error_type) at time t
RecordError(L, t, error_type) ==
    LET L0 == [L EXCEPT !.last_error_time = t]
    IN  IF error_type = "network"
        THEN [L0 EXCEPT !.network_errors = @ + 1,
                        !.last_network_error_time = t,
                        !.consecutive_network_errors = @ + 1]
        ELSE IF error_type = "rate_limit"
        THEN LET L1 == [L0 EXCEPT !.rate_limit_errors = @ + 1,
                                  !.last_rate_limit_time = t]
             IN  [L1 EXCEPT !.in_cooldown = TRUE,
                            !.cooldown_end_time = t + CooldownTime(L1) * MS]
        ELSE [L0 EXCEPT !.consecutive_network_errors = 0]

\* jitter_factor * x, in the unit of x
JitterMax(x) ==
    (RATE_LIMITS.jitter_factor[1] * x) \div RATE_LIMITS.jitter_factor[2]

\* get_wait_time that asks for retry_delay seconds when the daily limit is
\* reached
GetWaitTime_WaitsOnDailyLimit(L, t) ==
    IF L.in_cooldown /\ L.cooldown_end_time # None
    THEN {Max(L.cooldown_end_time - t, 0)}
    ELSE IF L.requests_this_minute >= RATE_LIMITS.requests_per_minute
    THEN LET seconds_since_last == TimedeltaSeconds(t - L.last_request_time)
             base_wait_time == Max(60 - seconds_since_last, 0) * MS
         IN  {base_wait_time + jitter :
                 jitter \in Uniform(0, JitterMax(base_wait_time))}
    ELSE IF L.requests_today >= RATE_LIMITS.requests_per_day
    THEN {RATE_LIMITS.retry_delay * MS}
    ELSE {0}

\* get_wait_time at time t: the values it can return, in ms, one for each
\* draw of random.uniform
GetWaitTime(L, t) ==
    IF L.in_cooldown /\ L.cooldown_end_time # None
    THEN {Max(L.cooldown_end_time - t, 0)}
    ELSE IF L.requests_this_minute >= RATE_LIMITS.requests_per_minute
    THEN LET seconds_since_last == TimedeltaSeconds(t - L.last_request_time)
             base_wait_time == Max(60 - seconds_since_last, 0) * MS
         IN  {base_wait_time + jitter :
                 jitter \in Uniform(0, JitterMax(base_wait_time))}
    ELSE {0}

\* min(num / den * backoff_factor ** e, max_backoff), in ms.  backoff_factor
\* is above 1, so once a power reaches max_backoff every higher one does.
RECURSIVE Backoff(_, _, _)
Backoff(num, den, e) ==
    IF num >= RATE_LIMITS.max_backoff * MS * den
    THEN RATE_LIMITS.max_backoff * MS
    ELSE IF e = 0 THEN num \div den
    ELSE Backoff(num * RATE_LIMITS.backoff_factor[1],
                 den * RATE_LIMITS.backoff_factor[2], e - 1)

\* min(base_delay * backoff_factor ** e, max_backoff), in ms
BaseBackoffTime(base_delay, e) == Backoff(base_delay * MS, 1, e)

\* GetNetworkBackoffTime that takes the attempt number alone as the factor
GetNetworkBackoffTime_AttemptOnly(L, attempt, error_type) ==
    LET base_backoff_time ==
            IF error_type = "service_unavailable"
            THEN BaseBackoffTime(RATE_LIMITS.service_unavailable_backoff,
                                 attempt + 1)
            ELSE BaseBackoffTime(RATE_LIMITS.network_retry_delay, attempt)
    IN  {base_backoff_time + jitter :
            jitter \in Uniform(0, JitterMax(base_backoff_time))}

\* get_network_backoff_time(attempt, error_type): the values it can return,
\* in ms, one for each draw of random.uniform
GetNetworkBackoffTime(L, attempt, error_type) ==
    LET factor == Max(attempt, L.consecutive_network_errors)
        base_backoff_time ==
            IF error_type = "service_unavailable"
            THEN BaseBackoffTime(RATE_LIMITS.service_unavailable_backoff,
                                 factor + 1)
            ELSE BaseBackoffTime(RATE_LIMITS.network_retry_delay, factor)
    IN  {base_backoff_time + jitter :
            jitter \in Uniform(0, JitterMax(base_backoff_time))}

\* get_rate_limit_status at time t: the dictionary it returns, times in
\* seconds; int() of a number of seconds that is not negative drops the
\* fraction
GetRateLimitStatus(L, t) ==
    [ requests_this_minute |-> L.requests_this_minute,
      requests_today       |-> L.requests_today,
      minute_limit         |-> RATE_LIMITS.requests_per_minute,
      daily_limit          |-> RATE_LIMITS.requests_per_day,
      in_cooldown          |-> L.in_cooldown,
      rate_limit_errors    |-> L.rate_limit_errors,
      network_errors       |-> L.network_errors,
      cooldown_remaining   |->
          IF L.in_cooldown /\ L.cooldown_end_time # None
          THEN IF L.cooldown_end_time >= t
               THEN (L.cooldown_end_time - t) \div MS
               ELSE 0
          ELSE 0,
      minute_reset_in      |->
          IF L.requests_this_minute >= RATE_LIMITS.requests_per_minute
          THEN Max(60 - TimedeltaSeconds(t - L.last_request_time), 0)
          ELSE 0 ]

\* reset_network_errors that leaves the streak of network errors
ResetNetworkErrors_KeepsStreak(L) == L

\* reset_network_errors
ResetNetworkErrors(L) == [L EXCEPT !.consecutive_network_errors = 0]

\* ResetRateLimitErrors that also opens a new minute window
ResetRateLimitErrors_OpensWindow(L) ==
    [L EXCEPT !.rate_limit_errors = 0,
              !.in_cooldown = FALSE,
              !.cooldown_end_time = None,
              !.requests_this_minute = 0]

\* ResetRateLimitErrors that keeps the error count
ResetRateLimitErrors_KeepsCount(L) ==
    [L EXCEPT !.in_cooldown = FALSE,
              !.cooldown_end_time = None]

\* reset_rate_limit_errors
ResetRateLimitErrors(L) ==
    [L EXCEPT !.rate_limit_errors = 0,
              !.in_cooldown = FALSE,
              !.cooldown_end_time = None]

(***************************************************************************)
(* get_ai_response(model, prompt, max_retries) on                          *)
(* st.session_state.rate_limiter                                           *)
(***************************************************************************)
\* The exception messages of the underlying call, each as the set of the
\* substrings get_ai_response looks for that occur in str(e).lower().
ErrorMessages ==
    { {"429"}, {"timeout"}, {"503"}, {"503", "connection"}, {"token limit"},
      {} }

NetworkWords == {"timeout", "connect", "connection", "network", "handshake"}

\* get_ai_response, lines 370-442: the branch of the if/elif chain taken
Classify(error_msg) ==
    IF "429" \in error_msg THEN "rate_limit"
    ELSE IF error_msg \cap NetworkWords # {} THEN "network"
    ELSE IF error_msg \cap {"503", "service unavailable"} # {}
    THEN "service_unavailable"
    ELSE IF error_msg \cap {"too many tokens", "token limit"} # {}
    THEN "token_limit"
    ELSE "other"

VARIABLES
    rl,           \* st.session_state.rate_limiter
    now,          \* datetime.now(), ms
    pc,           \* "idle": no invocation runs; "attempt": at the top of the
                  \* loop body; "call": model.generate_content is in flight
    attempt,      \* the loop variable of get_ai_response
    max_retries,  \* its parameter
    result,       \* what the last finished invocation returned
    cmr,          \* the last can_make_request(): the value returned and the
                  \* limiter fields its limit check read
    issued,       \* the times of the last requests_per_minute + 1 calls of
                  \* model.generate_content
    day_calls,    \* the number of calls issued on calendar date .date
    errors429,    \* record_error("rate_limit") calls since the last success
    slept,        \* the last time.sleep of the invocation: its argument and
                  \* the branch that slept
    raised,       \* the exception `e` of line 366 that the last step
                  \* handled: its message and the branch of lines 370-442
                  \* that handled it; "none" outside the except clause
    inv,          \* the invocation: the calls it issued, the attempts that
                  \* were refused and the branches its exceptions took
    ul,           \* a RateLimiter of utils/rate_limiter.py, given the
                  \* same limits
    chart,        \* the script of the chart widget: what runs next, its
                  \* initializationAttempts and how often initChart was
                  \* scheduled again
    ret,          \* the last method of the limiter called on its own and
                  \* the value it returned
    budget,       \* loop bodies, or calls of methods, that may still be made
    waited        \* the clock was advanced since the last invocation

vars == <<rl, now, pc, attempt, max_retries, result, cmr, issued, day_calls,
          errors429, slept, raised, inv, ul, chart, ret, budget, waited>>

(***************************************************************************)
(* class RateLimiter of utils/rate_limiter.py, with limits = RATE_LIMITS   *)
(***************************************************************************)
\* __init__ at time t
NewUtilsRateLimiter(t) ==
    [ last_request_time    |-> t - 60 * MS,
      requests_this_minute |-> 0,
      requests_today       |-> 0,
      day_start            |-> Date(t) ]

\* UtilsCanMakeRequest that measures the minute window in whole elapsed
\* time, total_seconds()
UtilsCanMakeRequest_TotalSeconds(U, t) ==
    LET U1 == IF Date(t) # U.day_start
              THEN [U EXCEPT !.requests_today = 0, !.day_start = Date(t)]
              ELSE U
        U2 == IF t - U1.last_request_time >= 60 * MS
              THEN [U1 EXCEPT !.requests_this_minute = 0]
              ELSE U1
    IN  [ret |-> /\ U2.requests_this_minute < RATE_LIMITS.requests_per_minute
                 /\ U2.requests_today < RATE_LIMITS.requests_per_day,
         ul  |-> U2]

\* can_make_request at time t: the value returned and the limiter it leaves
UtilsCanMakeRequest(U, t) ==
    LET U1 == IF Date(t) # U.day_start
              THEN [U EXCEPT !.requests_today = 0, !.day_start = Date(t)]
              ELSE U
        U2 == IF TimedeltaSeconds(t - U1.last_request_time) >= 60
              THEN [U1 EXCEPT !.requests_this_minute = 0]
              ELSE U1
    IN  [ret |-> /\ U2.requests_this_minute < RATE_LIMITS.requests_per_minute
                 /\ U2.requests_today < RATE_LIMITS.requests_per_day,
         ul  |-> U2]

\* record_request at time t
UtilsRecordRequest(U, t) ==
    [U EXCEPT !.requests_this_minute = @ + 1,
              !.requests_today = @ + 1,
              !.last_request_time = t]

\* get_wait_time at time t, in ms
UtilsGetWaitTime(U, t) ==
    IF U.requests_this_minute >= RATE_LIMITS.requests_per_minute
    THEN (60 - TimedeltaSeconds(t - U.last_request_time)) * MS
    ELSE 0

(***************************************************************************)
(* The script create_tradingview_chart embeds in the page of the chart     *)
(***************************************************************************)
\* const MAX_ATTEMPTS = 50
MAX_ATTEMPTS == 50

\* the script as it starts: initChart() is about to run
NewChart == [pc |-> "initChart", initializationAttempts |-> 0,
             scheduled |-> 0]

\* the catch clause of initChart
Caught(c) ==
    IF c.initializationAttempts < MAX_ATTEMPTS
    THEN [c EXCEPT !.pc = "initChart", !.scheduled = @ + 1]
    ELSE [c EXCEPT !.pc = "stopped"]

\* checkDimensions of waitForContainer; sized: the container has a width
\* and a height
CheckDimensions(c, sized) ==
    IF sized
    THEN [c EXCEPT !.pc = "ready"]
    ELSE LET c1 == [c EXCEPT !.initializationAttempts = @ + 1]
         IN  IF c1.initializationAttempts >= MAX_ATTEMPTS
             THEN Caught(c1)
             ELSE [c1 EXCEPT !.pc = "checkDimensions"]

\* no exception: the call returned, line 361
NoError == [msg |-> {}, branch |-> "none"]

\* `for attempt in range(max_retries)`, line 351, before its first pass
NewInvocation == [calls |-> 0, refused |-> 0, errors |-> {}]

\* A failure that names the branch that gave up
Failure_CarriesKind(branch) == branch

\* `return None`, lines 444, 452 and 454: what a failed invocation returns,
\* whatever the branch that gave up
Failure(branch) == "None"

\* The page is first run at 23:59:30 of day 0.
StartTime == (SecondsPerDay - 30) * MS

Init ==
    /\ now = StartTime
    /\ rl = NewRateLimiter(StartTime)
    /\ pc = "idle"
    /\ attempt = 0
    /\ max_retries = 3
    /\ result = "none yet"
    /\ cmr = [ret |-> FALSE, at |-> None, in_cooldown |-> FALSE,
              cooldown_end_time |-> None,
              requests_this_minute |-> 0, requests_today |-> 0,
              requests_today_before |-> 0]
    /\ issued = <<>>
    /\ day_calls = [date |-> Date(StartTime), n |-> 0]
    /\ errors429 = 0
    /\ slept = [s |-> 0, after |-> "none"]
    /\ raised = NoError
    /\ inv = NewInvocation
    /\ ul = NewUtilsRateLimiter(StartTime)
    /\ chart = NewChart
    /\ ret = [op |-> "none"]
    /\ budget = MaxAttempts
    /\ waited = FALSE

\* The user waits d seconds before the next question.
Advance(d) ==
    /\ UNCHANGED <<ret, ul, chart>>
    /\ pc = "idle"
    /\ ~waited
    /\ budget > 0
    /\ now' = now + d * MS
    /\ waited' = TRUE
    /\ UNCHANGED <<rl, pc, attempt, max_retries, result, cmr, issued,
                   day_calls, errors429, slept, raised, inv, budget>>

\* get_ai_response is called: line 349, 351
Invoke(m) ==
    /\ UNCHANGED <<ret, ul, chart>>
    /\ pc = "idle"
    /\ budget > 0
    /\ waited' = FALSE
    /\ pc' = "attempt"
    /\ attempt' = 0
    /\ max_retries' = m
    /\ result' = "pending"
    /\ slept' = [s |-> 0, after |-> "none"]
    /\ raised' = NoError
    /\ inv' = NewInvocation
    /\ UNCHANGED <<rl, now, cmr, issued, day_calls, errors429, budget>>

\* what can_make_request returned and read, and the requests_today it found
\* on entry, for the properties
Snapshot(c, t) ==
    [ret |-> c.ret, at |-> t, in_cooldown |-> c.rl.in_cooldown,
     cooldown_end_time |-> c.rl.cooldown_end_time,
     requests_this_minute |-> c.rl.requests_this_minute,
     requests_today |-> c.rl.requests_today,
     requests_today_before |-> rl.requests_today]

\* the log of issue times, the oldest dropped
Logged(log, t) ==
    LET l == Append(log, t)
    IN  IF Len(l) > RATE_LIMITS.requests_per_minute + 1 THEN Tail(l) ELSE l

Counted(dc, t) ==
    IF dc.date = Date(t) THEN [dc EXCEPT !.n = @ + 1]
    ELSE [date |-> Date(t), n |-> 1]

\* A retry that does not use up an attempt
RetryOrGiveUp_SameAttempt(retry, t, s, branch) ==
    IF retry
    THEN /\ now' = t + s
         /\ slept' = [s |-> s, after |-> branch]
         /\ attempt' = attempt
         /\ pc' = "attempt"
         /\ result' = result
    ELSE /\ now' = t
         /\ slept' = slept
         /\ attempt' = attempt
         /\ pc' = "idle"
         /\ result' = Failure(branch)

\* At time t: time.sleep(s) and `continue`, or the fall through to
\* `return None`
RetryOrGiveUp(retry, t, s, branch) ==
    IF retry
    THEN /\ now' = t + s
         /\ slept' = [s |-> s, after |-> branch]
         /\ attempt' = attempt + 1
         /\ pc' = "attempt"
         /\ result' = result
    ELSE /\ now' = t
         /\ slept' = slept
         /\ attempt' = attempt
         /\ pc' = "idle"
         /\ result' = Failure(branch)

\* lines 358-361: can_make_request() is true, record_request(), the call
AttemptAdmitted ==
    /\ UNCHANGED <<ret, ul, chart>>
    /\ pc = "attempt"
    /\ budget > 0
    /\ LET c == CanMakeRequest(rl, now)
       IN  /\ c.ret
           /\ cmr' = Snapshot(c, now)
           /\ rl' = RecordRequest(c.rl, now)
    /\ pc' = "call"
    /\ issued' = Logged(issued, now)
    /\ day_calls' = Counted(day_calls, now)
    /\ budget' = budget - 1
    /\ inv' = [inv EXCEPT !.calls = @ + 1]
    /\ raised' = NoError
    /\ UNCHANGED <<now, attempt, max_retries, result, errors429, slept,
                   waited>>

\* The same branch if it slept the whole of get_wait_time()
AttemptRefused_SleepsWaitTime ==
    /\ UNCHANGED <<ret, ul, chart>>
    /\ pc = "attempt"
    /\ budget > 0
    /\ LET c == CanMakeRequest(rl, now)
       IN  /\ ~c.ret
           /\ cmr' = Snapshot(c, now)
           /\ rl' = c.rl
           /\ \E wait_time \in GetWaitTime(c.rl, now) :
                 RetryOrGiveUp(attempt < max_retries - 1, now, wait_time,
                               "refused")
    /\ budget' = budget - 1
    /\ inv' = [inv EXCEPT !.refused = @ + 1]
    /\ raised' = NoError
    /\ UNCHANGED <<max_retries, issued, day_calls, errors429, waited>>

\* lines 358, 445-452: can_make_request() is false
AttemptRefused ==
    /\ UNCHANGED <<ret, ul, chart>>
    /\ pc = "attempt"
    /\ budget > 0
    /\ LET c == CanMakeRequest(rl, now)
       IN  /\ ~c.ret
           /\ cmr' = Snapshot(c, now)
           /\ rl' = c.rl
           /\ \E wait_time \in GetWaitTime(c.rl, now) :
                 RetryOrGiveUp(attempt < max_retries - 1, now,
                               Min(wait_time, RATE_LIMITS.retry_delay * MS),
                               "refused")
    /\ budget' = budget - 1
    /\ inv' = [inv EXCEPT !.refused = @ + 1]
    /\ raised' = NoError
    /\ UNCHANGED <<max_retries, issued, day_calls, errors429, waited>>

\* lines 361-365: the call returns a response after lat ms
CallReturns(lat) ==
    /\ UNCHANGED <<ret, ul, chart>>
    /\ pc = "call"
    /\ now' = now + lat
    /\ rl' = ResetRateLimitErrors(ResetNetworkErrors(rl))
    /\ errors429' = 0
    /\ pc' = "idle"
    /\ result' = "response"
    /\ raised' = NoError
    /\ UNCHANGED <<attempt, max_retries, cmr, issued, day_calls, slept,
                   inv, budget, waited>>

\* lines 366-382, 444: the call raises a rate limit error after lat ms
RaisedRateLimit(error_msg, lat) ==
    /\ UNCHANGED <<ret, ul, chart>>
    /\ pc = "call"
    /\ Classify(error_msg) = "rate_limit"
    /\ raised' = [msg |-> error_msg, branch |-> "rate_limit"]
    /\ inv' = [inv EXCEPT !.errors = @ \cup {"rate_limit"}]
    /\ LET t == now + lat
           L == RecordError(rl, t, "rate_limit")
       IN  /\ rl' = L
           /\ \E wait_time \in GetWaitTime(L, t) :
                 RetryOrGiveUp(attempt < max_retries - 1, t, wait_time,
                               "rate_limit")
    /\ errors429' = errors429 + 1
    /\ UNCHANGED <<max_retries, cmr, issued, day_calls, budget, waited>>

\* The network branch if it computed the backoff before it recorded the
\* error
RaisedNetwork_BackoffFirst(error_msg, lat) ==
    /\ UNCHANGED <<ret, ul, chart>>
    /\ pc = "call"
    /\ Classify(error_msg) = "network"
    /\ raised' = [msg |-> error_msg, branch |-> "network"]
    /\ inv' = [inv EXCEPT !.errors = @ \cup {"network"}]
    /\ LET t == now + lat
           L == RecordError(rl, t, "network")
       IN  /\ rl' = L
           /\ \E backoff_time \in GetNetworkBackoffTime(rl, attempt, "None") :
                 RetryOrGiveUp(attempt < max_retries - 1, t, backoff_time,
                               "network")
    /\ UNCHANGED <<max_retries, cmr, issued, day_calls, errors429,
                   budget, waited>>

\* lines 385-404, 444: the call raises a network error after lat ms
RaisedNetwork(error_msg, lat) ==
    /\ UNCHANGED <<ret, ul, chart>>
    /\ pc = "call"
    /\ Classify(error_msg) = "network"
    /\ raised' = [msg |-> error_msg, branch |-> "network"]
    /\ inv' = [inv EXCEPT !.errors = @ \cup {"network"}]
    /\ LET t == now + lat
           L == RecordError(rl, t, "network")
       IN  /\ rl' = L
           /\ \E backoff_time \in GetNetworkBackoffTime(L, attempt, "None") :
                 RetryOrGiveUp(attempt < max_retries - 1, t, backoff_time,
                               "network")
    /\ UNCHANGED <<max_retries, cmr, issued, day_calls, errors429,
                   budget, waited>>

\* lines 407-434, 444: the call raises a 503 after lat ms
RaisedServiceUnavailable(error_msg, lat) ==
    /\ UNCHANGED <<ret, ul, chart>>
    /\ pc = "call"
    /\ Classify(error_msg) = "service_unavailable"
    /\ raised' = [msg |-> error_msg, branch |-> "service_unavailable"]
    /\ inv' = [inv EXCEPT !.errors = @ \cup {"service_unavailable"}]
    /\ LET t == now + lat
           L == RecordError(rl, t, "network")
           max_503_retries == RATE_LIMITS.max_network_retries
       IN  /\ rl' = L
           /\ \E backoff_time \in
                    GetNetworkBackoffTime(L, attempt, "service_unavailable") :
                 RetryOrGiveUp(
                     attempt < Min(max_retries - 1, max_503_retries - 1),
                     t, backoff_time, "service_unavailable")
    /\ UNCHANGED <<max_retries, cmr, issued, day_calls, errors429,
                   budget, waited>>

\* The same branches if they called record_error() like the others, with
\* an error type of their own
RaisedTerminal_RecordsError(error_msg, lat) ==
    /\ pc = "call"
    /\ Classify(error_msg) \in {"token_limit", "other"}
    /\ raised' = [msg |-> error_msg, branch |-> Classify(error_msg)]
    /\ inv' = [inv EXCEPT !.errors = @ \cup {Classify(error_msg)}]
    /\ rl' = RecordError(rl, now + lat, Classify(error_msg))
    /\ now' = now + lat
    /\ pc' = "idle"
    /\ result' = Failure(Classify(error_msg))
    /\ UNCHANGED <<attempt, max_retries, cmr, issued, day_calls,
                   errors429, slept, ul, chart, ret, budget, waited>>

\* lines 437-444: the call raises a token limit error or any other error
RaisedTerminal(error_msg, lat) ==
    /\ UNCHANGED <<ret, ul, chart>>
    /\ pc = "call"
    /\ Classify(error_msg) \in {"token_limit", "other"}
    /\ raised' = [msg |-> error_msg, branch |-> Classify(error_msg)]
    /\ inv' = [inv EXCEPT !.errors = @ \cup {Classify(error_msg)}]
    /\ now' = now + lat
    /\ pc' = "idle"
    /\ result' = Failure(Classify(error_msg))
    /\ UNCHANGED <<rl, attempt, max_retries, cmr, issued, day_calls,
                   errors429, slept, ret, budget, waited>>

Next ==
    \/ \E d \in Deltas : Advance(d)
    \/ \E m \in MaxRetriesChoices : Invoke(m)
    \/ AttemptAdmitted
    \/ AttemptRefused
    \/ \E lat \in Latencies : CallReturns(lat)
    \/ \E e \in ErrorMessages, lat \in Latencies : RaisedRateLimit(e, lat)
    \/ \E e \in ErrorMessages, lat \in Latencies : RaisedNetwork(e, lat)
    \/ \E e \in ErrorMessages, lat \in Latencies :
          RaisedServiceUnavailable(e, lat)
    \/ \E e \in ErrorMessages, lat \in Latencies : RaisedTerminal(e, lat)

Spec == Init /\ [][Next]_vars

(***************************************************************************)
(* The same program while the service answers every call with a response   *)
(* or a rate limit error: fewer outcomes, followed for more attempts.      *)
(***************************************************************************)
InitRateLimited ==
    /\ now = StartTime
    /\ rl = NewRateLimiter(StartTime)
    /\ pc = "idle"
    /\ attempt = 0
    /\ max_retries = 3
    /\ result = "none yet"
    /\ cmr = [ret |-> FALSE, at |-> None, in_cooldown |-> FALSE,
              cooldown_end_time |-> None,
              requests_this_minute |-> 0, requests_today |-> 0,
              requests_today_before |-> 0]
    /\ issued = <<>>
    /\ day_calls = [date |-> Date(StartTime), n |-> 0]
    /\ errors429 = 0
    /\ slept = [s |-> 0, after |-> "none"]
    /\ raised = NoError
    /\ inv = NewInvocation
    /\ ul = NewUtilsRateLimiter(StartTime)
    /\ chart = NewChart
    /\ ret = [op |-> "none"]
    /\ budget = MaxRateLimitedAttempts
    /\ waited = FALSE

NextRateLimited ==
    \/ \E d \in Deltas : Advance(d)
    \/ \E m \in MaxRetriesChoices : Invoke(m)
    \/ AttemptAdmitted
    \/ AttemptRefused
    \/ \E lat \in Latencies : CallReturns(lat)
    \/ \E e \in ErrorMessages, lat \in Latencies : RaisedRateLimit(e, lat)

SpecRateLimited == InitRateLimited /\ [][NextRateLimited]_vars

(***************************************************************************)
(* The same program taken up on a day on which the page has already made   *)
(* requests_per_day calls, the last of them 10 or 70 seconds ago.          *)
(***************************************************************************)
SinceLastRequest == {10, 70}

InitDailyLimit ==
    /\ now = StartTime
    /\ \E since \in SinceLastRequest :
          /\ rl = [NewRateLimiter(StartTime) EXCEPT
                      !.last_request_time = StartTime - since * MS,
                      !.requests_this_minute = 1,
                      !.requests_today = RATE_LIMITS.requests_per_day]
          /\ issued = <<StartTime - since * MS>>
    /\ pc = "idle"
    /\ attempt = 0
    /\ max_retries = 3
    /\ result = "none yet"
    /\ cmr = [ret |-> FALSE, at |-> None, in_cooldown |-> FALSE,
              cooldown_end_time |-> None,
              requests_this_minute |-> 0, requests_today |-> 0,
              requests_today_before |-> 0]
    /\ day_calls = [date |-> Date(StartTime),
                    n |-> RATE_LIMITS.requests_per_day]
    /\ errors429 = 0
    /\ slept = [s |-> 0, after |-> "none"]
    /\ raised = NoError
    /\ inv = NewInvocation
    /\ ul = NewUtilsRateLimiter(StartTime)
    /\ chart = NewChart
    /\ ret = [op |-> "none"]
    /\ budget = MaxAttempts
    /\ waited = FALSE

SpecDailyLimit == InitDailyLimit /\ [][Next]_vars

(***************************************************************************)
(* One RateLimiter whose methods are called on their own, in any order and *)
(* at any time.                                                            *)
(***************************************************************************)
InitLimiter ==
    /\ now = StartTime
    /\ rl = NewRateLimiter(StartTime)
    /\ pc = "idle"
    /\ attempt = 0
    /\ max_retries = 3
    /\ result = "none yet"
    /\ cmr = [ret |-> FALSE, at |-> None, in_cooldown |-> FALSE,
              cooldown_end_time |-> None,
              requests_this_minute |-> 0, requests_today |-> 0,
              requests_today_before |-> 0]
    /\ issued = <<>>
    /\ day_calls = [date |-> Date(StartTime), n |-> 0]
    /\ errors429 = 0
    /\ slept = [s |-> 0, after |-> "none"]
    /\ raised = NoError
    /\ inv = NewInvocation
    /\ ul = NewUtilsRateLimiter(StartTime)
    /\ chart = NewChart
    /\ ret = [op |-> "none"]
    /\ budget = MaxCalls
    /\ waited = FALSE

\* what no method of the limiter touches
Program == <<pc, attempt, max_retries, result, cmr, issued, day_calls,
             errors429, slept, raised, inv>>

\* a method returns: the step is counted
Returned == budget' = budget - 1 /\ waited' = FALSE /\ now' = now

\* d seconds pass between two calls
Tick(d) ==
    /\ budget > 0
    /\ ~waited
    /\ now' = now + d * MS
    /\ waited' = TRUE
    /\ UNCHANGED <<rl, ret, budget, Program, ul, chart>>

DoCanMakeRequest ==
    /\ budget > 0
    /\ LET c == CanMakeRequest(rl, now)
       IN  /\ rl' = c.rl
           /\ ret' = [op |-> "can_make_request", value |-> c.ret]
    /\ Returned
    /\ UNCHANGED <<Program, ul, chart>>

DoRecordRequest ==
    /\ budget > 0
    /\ rl' = RecordRequest(rl, now)
    /\ ret' = [op |-> "record_request"]
    /\ Returned
    /\ UNCHANGED <<Program, ul, chart>>

DoRecordError(error_type) ==
    /\ budget > 0
    /\ rl' = RecordError(rl, now, error_type)
    /\ ret' = [op |-> "record_error", error_type |-> error_type]
    /\ Returned
    /\ UNCHANGED <<Program, ul, chart>>

DoGetWaitTime ==
    /\ budget > 0
    /\ \E w \in GetWaitTime(rl, now) :
          ret' = [op |-> "get_wait_time", value |-> w]
    /\ Returned
    /\ UNCHANGED <<rl, Program, ul, chart>>

DoGetNetworkBackoffTime(a, error_type) ==
    /\ budget > 0
    /\ \E b \in GetNetworkBackoffTime(rl, a, error_type) :
          ret' = [op |-> "get_network_backoff_time", attempt |-> a,
                  error_type |-> error_type, value |-> b]
    /\ Returned
    /\ UNCHANGED <<rl, Program, ul, chart>>

DoResetNetworkErrors ==
    /\ budget > 0
    /\ rl' = ResetNetworkErrors(rl)
    /\ ret' = [op |-> "reset_network_errors"]
    /\ Returned
    /\ UNCHANGED <<Program, ul, chart>>

DoResetRateLimitErrors ==
    /\ budget > 0
    /\ rl' = ResetRateLimitErrors(rl)
    /\ ret' = [op |-> "reset_rate_limit_errors"]
    /\ Returned
    /\ UNCHANGED <<Program, ul, chart>>

\* get_rate_limit_status that clears a cooldown it finds ended
DoGetRateLimitStatus_ClearsCooldown ==
    /\ budget > 0
    /\ ret' = [op |-> "get_rate_limit_status",
               value |-> GetRateLimitStatus(rl, now)]
    /\ rl' = IF CooldownActive(rl, now) THEN rl ELSE EndCooldown(rl)
    /\ Returned
    /\ UNCHANGED <<Program, ul, chart>>

DoGetRateLimitStatus ==
    /\ budget > 0
    /\ ret' = [op |-> "get_rate_limit_status",
               value |-> GetRateLimitStatus(rl, now)]
    /\ Returned
    /\ UNCHANGED <<rl, Program, ul, chart>>

NextLimiter ==
    \/ \E d \in Deltas : Tick(d)
    \/ DoCanMakeRequest
    \/ DoRecordRequest
    \/ \E k \in {"network", "rate_limit", "general"} : DoRecordError(k)
    \/ DoGetWaitTime
    \/ \E a \in 0..MaxAttemptArg, k \in {"None", "service_unavailable"} :
          DoGetNetworkBackoffTime(a, k)
    \/ DoResetNetworkErrors
    \/ DoResetRateLimitErrors
    \/ DoGetRateLimitStatus

SpecLimiter == InitLimiter /\ [][NextLimiter]_vars

(***************************************************************************)
(* The two RateLimiter classes side by side: each method is called on both *)
(* at the same instant, and no error is recorded.                          *)
(***************************************************************************)
VariantDeltas == {30, 90, SecondsPerDay}

InitVariants ==
    /\ now = StartTime
    /\ rl = NewRateLimiter(StartTime)
    /\ pc = "idle"
    /\ attempt = 0
    /\ max_retries = 3
    /\ result = "none yet"
    /\ cmr = [ret |-> FALSE, at |-> None, in_cooldown |-> FALSE,
              cooldown_end_time |-> None,
              requests_this_minute |-> 0, requests_today |-> 0,
              requests_today_before |-> 0]
    /\ issued = <<>>
    /\ day_calls = [date |-> Date(StartTime), n |-> 0]
    /\ errors429 = 0
    /\ slept = [s |-> 0, after |-> "none"]
    /\ raised = NoError
    /\ inv = NewInvocation
    /\ ul = NewUtilsRateLimiter(StartTime)
    /\ chart = NewChart
    /\ ret = [op |-> "none"]
    /\ budget = MaxVariantCalls
    /\ waited = FALSE

\* value: what the class of the page returned; utils: what the class of
\* utils/rate_limiter.py returned
BothCanMakeRequest ==
    /\ budget > 0
    /\ LET c == CanMakeRequest(rl, now)
           u == UtilsCanMakeRequest(ul, now)
       IN  /\ rl' = c.rl
           /\ ul' = u.ul
           /\ ret' = [op |-> "can_make_request", value |-> c.ret,
                      utils |-> u.ret]
    /\ Returned
    /\ UNCHANGED <<Program, chart>>

BothRecordRequest ==
    /\ budget > 0
    /\ rl' = RecordRequest(rl, now)
    /\ ul' = UtilsRecordRequest(ul, now)
    /\ ret' = [op |-> "record_request"]
    /\ Returned
    /\ UNCHANGED <<Program, chart>>

BothGetWaitTime ==
    /\ budget > 0
    /\ \E w \in GetWaitTime(rl, now) :
          ret' = [op |-> "get_wait_time", value |-> w,
                  utils |-> UtilsGetWaitTime(ul, now)]
    /\ Returned
    /\ UNCHANGED <<rl, ul, Program, chart>>

NextVariants ==
    \/ \E d \in VariantDeltas : Tick(d)
    \/ BothCanMakeRequest
    \/ BothRecordRequest
    \/ BothGetWaitTime

SpecVariants == InitVariants /\ [][NextVariants]_vars

(***************************************************************************)
(* The script of the chart widget.  What the browser decides is chosen     *)
(* anew at every step: whether the container element is found, whether it  *)
(* has a size, whether building the chart throws.                          *)
(***************************************************************************)
\* initChart() runs and waitForContainer() does not find the container
ContainerMissing ==
    /\ chart.pc = "initChart"
    /\ chart.scheduled < MaxScheduled
    /\ chart' = Caught(chart)
    /\ UNCHANGED <<rl, now, Program, ul, ret, budget, waited>>

\* initChart() runs, waitForContainer() finds the container and calls
\* checkDimensions()
InitChart(sized) ==
    /\ chart.pc = "initChart"
    /\ chart.scheduled < MaxScheduled
    /\ chart' = CheckDimensions(chart, sized)
    /\ UNCHANGED <<rl, now, Program, ul, ret, budget, waited>>

\* the timer of setTimeout(checkDimensions, RETRY_DELAY) fires
CheckDimensionsAgain(sized) ==
    /\ chart.pc = "checkDimensions"
    /\ chart.scheduled < MaxScheduled
    /\ chart' = CheckDimensions(chart, sized)
    /\ UNCHANGED <<rl, now, Program, ul, ret, budget, waited>>

\* the rest of the try block of initChart, which builds the chart; thrown:
\* it throws (the library is not loaded, the chart data are invalid)
BuildChart(thrown) ==
    /\ chart.pc = "ready"
    /\ chart.scheduled < MaxScheduled
    /\ chart' = IF thrown THEN Caught(chart) ELSE [chart EXCEPT !.pc = "done"]
    /\ UNCHANGED <<rl, now, Program, ul, ret, budget, waited>>

NextChart ==
    \/ ContainerMissing
    \/ \E sized \in BOOLEAN : InitChart(sized)
    \/ \E sized \in BOOLEAN : CheckDimensionsAgain(sized)
    \/ \E thrown \in BOOLEAN : BuildChart(thrown)

SpecChart == Init /\ [][NextChart]_vars

(***************************************************************************)
(* Properties                                                              *)
(***************************************************************************)
\* the step is one pass through line 358, the can_make_request() of an attempt
AttemptStep == pc = "attempt" /\ budget' # budget

\* C1: model.generate_content is in flight only directly after a
\* can_make_request() that returned true, whose limit check read a limiter
\* that was not in cooldown and had requests_this_minute and requests_today
\* below their limits.
C1_CallOnlyWhenAdmitted ==
    pc = "call" =>
        /\ cmr.ret
        /\ cmr.at = rl.last_request_time
        /\ ~cmr.in_cooldown
        /\ ~rl.in_cooldown
        /\ cmr.requests_this_minute < requests_per_minute
        /\ cmr.requests_today < requests_per_day

\* a call admitted into the last slot of the minute after a cooldown was left
C1_Witness ==
    /\ pc = "call"
    /\ cmr.requests_this_minute = requests_per_minute - 1
    /\ rl.rate_limit_errors > 0

\* C2: of any requests_per_minute + 1 consecutive calls of
\* model.generate_content the last is issued at least 60 seconds after the
\* first, so no 60-second span holds more than requests_per_minute calls.
C2_MinuteCeiling ==
    Len(issued) = requests_per_minute + 1 =>
        issued[requests_per_minute + 1] - issued[1] >= 60 * MS

\* a call issued by an invocation that was first refused at the minute limit
\* and slept
C2_Witness ==
    /\ pc = "call"
    /\ slept.after = "refused"
    /\ Len(issued) = requests_per_minute + 1
    /\ rl.rate_limit_errors = 0

\* C3: no more than requests_per_day calls of model.generate_content are
\* issued on one calendar date.
C3_DailyCeiling == day_calls.n <= requests_per_day

\* requests_per_day calls were issued on a date and an attempt on that date
\* was refused outside any cooldown
C3_Witness ==
    /\ day_calls.n = requests_per_day
    /\ ~cmr.ret
    /\ ~cmr.in_cooldown
    /\ cmr.requests_today = requests_per_day
    /\ cmr.requests_this_minute < requests_per_minute
    /\ Date(cmr.at) = day_calls.date

\* C4: with requests_this_minute at its limit, no cooldown and requests_today
\* below its limit, can_make_request() returns false while less than 60
\* seconds have passed since last_request_time, and returns true with
\* requests_this_minute = 0 once 60 seconds or more have passed, however many.
C4_MinuteWindowReopens ==
    [][(/\ AttemptStep
        /\ ~rl.in_cooldown
        /\ rl.requests_this_minute >= requests_per_minute
        /\ rl.requests_today < requests_per_day)
       => IF now - rl.last_request_time < 60 * MS
          THEN ~cmr'.ret
          ELSE cmr'.ret /\ cmr'.requests_this_minute = 0]_vars

\* C5: from a state where in_cooldown is true and now < cooldown_end_time no
\* step issues a call, and a can_make_request() made there returns false,
\* whatever the counters.
C5_NoCallInCooldown ==
    [][(rl.in_cooldown /\ now < rl.cooldown_end_time)
       => /\ pc' # "call"
          /\ day_calls' = day_calls
          /\ AttemptStep => ~cmr'.ret]_vars

\* an attempt was refused in a cooldown that had not ended, with both counters
\* below their limits
C5_Witness ==
    /\ ~cmr.ret
    /\ cmr.in_cooldown
    /\ cmr.at < cmr.cooldown_end_time
    /\ cmr.requests_this_minute < requests_per_minute
    /\ cmr.requests_today < requests_per_day
    /\ rl.in_cooldown

\* C6, as claimed: a can_make_request() made with in_cooldown true and
\* now >= cooldown_end_time clears the cooldown and has both counters at 0 when
\* it checks the limits.
C6_CooldownEndResetsCounters ==
    [][(AttemptStep /\ rl.in_cooldown /\ now >= rl.cooldown_end_time)
       => /\ ~cmr'.in_cooldown
          /\ cmr'.cooldown_end_time = None
          /\ cmr'.requests_this_minute = 0
          /\ cmr'.requests_today = 0]_vars

\* C6, amended: such a can_make_request() clears the cooldown; it sets
\* requests_today to 0 only on a date other than day_start and
\* requests_this_minute to 0 only when the seconds component of the time since
\* last_request_time is at least 60, and leaves them as they were otherwise.
C6_CooldownEndKeepsCounters ==
    [][(AttemptStep /\ rl.in_cooldown /\ now >= rl.cooldown_end_time)
       => /\ ~cmr'.in_cooldown
          /\ cmr'.cooldown_end_time = None
          /\ cmr'.requests_today =
                IF now \div (86400 * MS) # rl.day_start
                THEN 0 ELSE rl.requests_today
          /\ cmr'.requests_this_minute =
                IF ((now - rl.last_request_time) % (86400 * MS)) \div MS >= 60
                THEN 0 ELSE rl.requests_this_minute]_vars

\* a call admitted by the can_make_request() that cleared a cooldown, with
\* requests_today still counting the earlier calls of the date
C6_Witness ==
    /\ pc = "call"
    /\ slept.after = "rate_limit"
    /\ rl.rate_limit_errors > 0
    /\ ~rl.in_cooldown
    /\ cmr.requests_today > 0

\* C7: the N-th record_error("rate_limit") since the last success leaves
\* rate_limit_errors = N, in_cooldown true and cooldown_end_time the time of
\* the error plus cooldown_period * min(N, 5) seconds: 900 s for N = 3 and
\* 1500 s, five times cooldown_period, from N = 5 on.
C7_CooldownEscalation ==
    [][errors429' = errors429 + 1
       => LET N == errors429'
              entered == rl'.last_error_time
              duration == rl'.cooldown_end_time - entered
          IN  /\ rl'.rate_limit_errors = N
              /\ rl'.in_cooldown
              /\ rl'.last_rate_limit_time = entered
              /\ entered >= now
              /\ duration = 300 * MS * (IF N < 5 THEN N ELSE 5)
              /\ N = 3 => duration = 900 * MS
              /\ N >= 5 => duration = 1500 * MS]_vars

\* the sixth rate limit error in a row, in the second invocation or later
C7_Witness ==
    /\ errors429 = 6
    /\ rl.rate_limit_errors = 6
    /\ rl.in_cooldown
    /\ rl.cooldown_end_time - rl.last_rate_limit_time = 1500 * MS

\* C9: get_network_backoff_time(attempt, kind) changes no field of the
\* limiter and returns a delay d with base <= d <= 1.3 * base, where
\* factor = max(attempt, consecutive_network_errors) and base is
\* min(10 * 2.5^factor, 120) s for a network error and
\* min(15 * 2.5^(factor + 1), 120) s for service_unavailable: 10 to 13 s for
\* attempt 0 and 62.5 to 81.25 s for attempt 2 when
\* consecutive_network_errors = 0.
C9_BackoffRange ==
    [][(ret'.op = "get_network_backoff_time" /\ budget' # budget)
       => LET d == ret'.value
              c == rl.consecutive_network_errors
              factor == IF ret'.attempt >= c THEN ret'.attempt ELSE c
              su == ret'.error_type = "service_unavailable"
              e == IF su THEN factor + 1 ELSE factor
              num == (IF su THEN 15 ELSE 10) * MS * 5^e
              den == 2^e
              base == IF num >= 120 * MS * den THEN 120 * MS
                      ELSE num \div den
          IN  /\ rl' = rl
              /\ base <= d
              /\ 10 * d <= 13 * base
              /\ (~su /\ c = 0 /\ ret'.attempt = 0)
                    => (10000 <= d /\ d <= 13000)
              /\ (~su /\ c = 0 /\ ret'.attempt = 2)
                    => (62500 <= d /\ d <= 81250)]_vars

\* a delay above its base, computed from a streak of network errors longer
\* than the attempt number
C9_Witness ==
    /\ ret.op = "get_network_backoff_time"
    /\ rl.consecutive_network_errors = 2
    /\ ret.attempt = 0
    /\ ret.error_type = "None"
    /\ ret.value = 81250

\* C10: every delay get_network_backoff_time returns, and get_ai_response
\* sleeps after a network or service-unavailable error, is at most
\* max_backoff seconds.
C10_BackoffCeiling ==
    slept.after \in {"network", "service_unavailable"}
        => slept.s <= RATE_LIMITS.max_backoff * MS

\* C8: a successful call leaves consecutive_network_errors = 0,
\* rate_limit_errors = 0, in_cooldown = false and cooldown_end_time = none,
\* and the counters and last_request_time as the admission set them.
C8_SuccessResets ==
    [][(pc = "call" /\ result' = "response")
       => /\ rl'.consecutive_network_errors = 0
          /\ rl'.rate_limit_errors = 0
          /\ rl'.in_cooldown = FALSE
          /\ rl'.cooldown_end_time = None
          /\ rl'.requests_this_minute = cmr.requests_this_minute + 1
          /\ rl'.requests_today = cmr.requests_today + 1
          /\ rl'.last_request_time = cmr.at
          /\ rl'.requests_this_minute = rl.requests_this_minute
          /\ rl'.requests_today = rl.requests_today
          /\ rl'.last_request_time = rl.last_request_time]_vars

\* a response returned after a rate limit error and a network error of the
\* same invocation
C8_Witness ==
    /\ pc = "idle"
    /\ result = "response"
    /\ attempt = 2
    /\ rl.network_errors > 0
    /\ rl.last_rate_limit_time # None
    /\ rl.last_network_error_time > rl.last_rate_limit_time

\* C11: an invocation whose every call raised a 503 error, and that no
\* attempt of which was refused, has issued max_network_retries calls when
\* it gives up, whatever max_retries is.
C11_ServiceUnavailableBudget ==
    ( /\ pc = "idle"
      /\ result = "None"
      /\ raised.branch = "service_unavailable"
      /\ inv.errors = {"service_unavailable"}
      /\ inv.refused = 0 )
        => inv.calls = RATE_LIMITS.max_network_retries

\* C12: the branch that handles an exception is the kind the message has:
\* rate_limit with 429, otherwise service_unavailable with "503" or "service
\* unavailable" (also when the message holds "connection" or "timeout"),
\* otherwise network with a network word, otherwise token_limit with a token
\* phrase, otherwise other.
C12_ClassificationByMessage ==
    raised.branch # "none" =>
        raised.branch =
            IF "429" \in raised.msg THEN "rate_limit"
            ELSE IF raised.msg \cap {"503", "service unavailable"} # {}
            THEN "service_unavailable"
            ELSE IF raised.msg \cap
                      {"timeout", "connect", "connection", "network",
                       "handshake"} # {}
            THEN "network"
            ELSE IF raised.msg \cap {"too many tokens", "token limit"} # {}
            THEN "token_limit"
            ELSE "other"

\* C13: a call that raises a token-limit error or any other error ends the
\* invocation at once, on every attempt number: it returns the failure,
\* issues no further call, does not sleep (only the call's own latency
\* passes) and leaves rate_limit_errors, in_cooldown, cooldown_end_time and
\* consecutive_network_errors as they were.
C13_TerminalErrorReturnsAtOnce ==
    [][ (pc = "call" /\ raised'.branch \in {"token_limit", "other"}) =>
            /\ pc' = "idle"
            /\ result' = "None"
            /\ attempt' = attempt
            /\ issued' = issued
            /\ inv'.calls = inv.calls
            /\ slept' = slept
            /\ now' - now \in Latencies
            /\ rl'.rate_limit_errors = rl.rate_limit_errors
            /\ rl'.in_cooldown = rl.in_cooldown
            /\ rl'.cooldown_end_time = rl.cooldown_end_time
            /\ rl'.consecutive_network_errors = rl.consecutive_network_errors
      ]_vars

\* a token-limit error on the second attempt, after a network error, returns
\* with the network errors still counted
C13_Witness ==
    /\ pc = "idle"
    /\ result = "None"
    /\ raised.branch = "token_limit"
    /\ attempt = 1
    /\ inv.calls = 2
    /\ rl.consecutive_network_errors = 1

C15_RefusedAttempt ==
    [][ (AttemptStep /\ ~cmr'.ret) =>
            /\ pc' # "call"
            /\ issued' = issued
            /\ inv'.calls = inv.calls
            /\ rl'.last_request_time = rl.last_request_time
            /\ rl'.requests_this_minute <= rl.requests_this_minute
            /\ rl'.requests_today <= rl.requests_today
            /\ rl'.last_error_time = rl.last_error_time
            /\ rl'.consecutive_network_errors = rl.consecutive_network_errors
            /\ rl'.network_errors = rl.network_errors
            /\ rl'.rate_limit_errors = rl.rate_limit_errors
            /\ IF attempt < max_retries - 1
               THEN /\ pc' = "attempt"
                    /\ attempt' = attempt + 1
                    /\ now' >= now
                    /\ now' - now <= RATE_LIMITS.retry_delay * MS
               ELSE /\ pc' = "idle"
                    /\ result' = "None"
                    /\ now' = now
      ]_vars

\* in a cooldown with more than a minute left, a first attempt was refused
\* and slept retry_delay seconds, the second and last was refused and
\* returned
C15_Witness ==
    /\ pc = "idle"
    /\ result = "None"
    /\ inv = [calls |-> 0, refused |-> 2, errors |-> {}]
    /\ slept = [s |-> RATE_LIMITS.retry_delay * MS, after |-> "refused"]
    /\ rl.in_cooldown
    /\ rl.cooldown_end_time - now > RATE_LIMITS.retry_delay * MS

\* C16: an invocation ends after at most max_retries attempts. While it runs
\* attempt < max_retries and it has issued at most attempt + 1 <= max_retries
\* calls; every step of it either ends it or lowers the measure
\* 2 * (max_retries - attempt) - [a call is in flight], which is positive;
\* a call that returns ends it with the response, so no call follows the
\* first success.
C16_BoundedAttempts ==
    /\ [](pc # "idle" =>
            /\ attempt \in 0 .. max_retries - 1
            /\ pc = "attempt" => inv.calls + inv.refused = attempt
            /\ pc = "call" => inv.calls + inv.refused = attempt + 1)
    /\ [](inv.calls <= max_retries)
    /\ [](result = "response" => pc = "idle")
    /\ [][ pc # "idle" =>
             /\ max_retries' = max_retries
             /\ \/ pc' = "idle"
                \/ 2 * (max_retries - attempt')
                       - (IF pc' = "call" THEN 1 ELSE 0)
                     < 2 * (max_retries - attempt)
                       - (IF pc = "call" THEN 1 ELSE 0)
             /\ (pc = "call" /\ raised'.branch = "none") =>
                    (pc' = "idle" /\ result' = "response")
             /\ inv'.calls > inv.calls => (pc = "attempt" /\ pc' = "call")
       ]_vars

\* an invocation with max_retries = 3 that issued three calls, the third of
\* which returned a response
C16_Witness ==
    /\ pc = "idle"
    /\ max_retries = 3
    /\ attempt = 2
    /\ inv.calls = 3
    /\ result = "response"

\* C17: a step issues a call exactly when it makes one record_request(),
\* just before the call: both counters are one above the values the
\* can_make_request() of the attempt left and last_request_time is the time
\* of issue. No other step raises a counter or moves last_request_time, and
\* the end of a call, response or error of any kind, leaves the counters as
\* they are. So requests_today is the number of calls issued since
\* day_start was last set, which is the number issued on the date day_start.
C17_OneRecordPerCall ==
    /\ [](rl.requests_today =
            IF day_calls.date = rl.day_start THEN day_calls.n ELSE 0)
    /\ [](pc = "call" => rl.last_request_time = issued[Len(issued)])
    /\ [][ /\ (pc = "attempt" /\ pc' = "call") =>
                /\ inv'.calls = inv.calls + 1
                /\ rl'.requests_this_minute = cmr'.requests_this_minute + 1
                /\ rl'.requests_today = cmr'.requests_today + 1
                /\ rl'.last_request_time = now
           /\ ~(pc = "attempt" /\ pc' = "call") =>
                /\ inv'.calls <= inv.calls
                /\ rl'.requests_this_minute <= rl.requests_this_minute
                /\ rl'.requests_today <= rl.requests_today
                /\ rl'.last_request_time = rl.last_request_time
           /\ pc = "call" =>
                /\ rl'.requests_this_minute = rl.requests_this_minute
                /\ rl'.requests_today = rl.requests_today
       ]_vars

\* two calls of one invocation failed, with a 429 and a network error, and
\* both are counted in requests_today
C17_Witness ==
    /\ pc = "idle"
    /\ inv.calls = 2
    /\ inv.errors = {"rate_limit", "network"}
    /\ day_calls.date = rl.day_start
    /\ day_calls.n = 2
    /\ rl.requests_today = 2

\* C18: in every state of the limiter in_cooldown is true exactly when
\* cooldown_end_time is set, and a record_error("rate_limit") leaves the
\* limiter in a cooldown whose end is strictly later than the time of the
\* call.
C18_CooldownHasEnd ==
    /\ [](rl.in_cooldown <=> rl.cooldown_end_time # None)
    /\ [][ ( /\ budget' # budget
             /\ ret'.op = "record_error"
             /\ ret'.error_type = "rate_limit" ) =>
                /\ rl'.in_cooldown
                /\ rl'.cooldown_end_time # None
                /\ rl'.cooldown_end_time > now
       ]_vars

\* a cooldown was entered by record_error("rate_limit") and, once over,
\* cleared by can_make_request()
C18_Witness ==
    /\ ret.op = "can_make_request"
    /\ rl.rate_limit_errors = 1
    /\ rl.last_rate_limit_time # None
    /\ ~rl.in_cooldown
    /\ rl.cooldown_end_time = None

\* C19: record_request() makes the rollover checks of can_make_request()
\* before it increments: called 60 seconds or more after last_request_time
\* it leaves requests_this_minute = 1, and called on a date other
\* than day_start it leaves requests_today = 1 and day_start = that date.
C19_RecordRequestRollsOver ==
    [][ (budget' # budget /\ ret'.op = "record_request") =>
            /\ now - rl.last_request_time >= 60 * MS =>
                   rl'.requests_this_minute = 1
            /\ Date(now) # rl.day_start =>
                   (rl'.requests_today = 1 /\ rl'.day_start = Date(now))
      ]_vars

\* C19, amended: record_request() makes no rollover check: it adds one to
\* requests_this_minute and to requests_today, whatever they hold and
\* whatever the time, sets last_request_time and leaves day_start and every
\* other field.
C19_RecordRequestOnlyIncrements ==
    [][ (budget' # budget /\ ret'.op = "record_request") =>
            rl' = [rl EXCEPT !.requests_this_minute = rl.requests_this_minute + 1,
                             !.requests_today = rl.requests_today + 1,
                             !.last_request_time = now]
      ]_vars

\* a second record_request() made a day after the first, with no
\* can_make_request() between them: both counters are 2 and day_start is
\* still the earlier date
C19_Witness ==
    /\ ret.op = "record_request"
    /\ rl.last_request_time = now
    /\ Date(now) # rl.day_start
    /\ rl.requests_today = 2
    /\ rl.requests_this_minute = 2

\* C20: in every state of the limiter, in a cooldown or not, a
\* can_make_request() called on a date other than day_start sets
\* requests_today to 0 and day_start to the date of the call before the
\* limit check, so the daily limit is not what refuses it.
C20_DayRolloverAlways ==
    [][ (AttemptStep /\ Date(now) # rl.day_start) =>
            /\ cmr'.requests_today = 0
            /\ rl'.day_start = Date(now)
      ]_vars

\* C20, amended: a can_make_request() called on a date other than day_start
\* while no cooldown is active (in_cooldown false, or the time at or past
\* cooldown_end_time) sets requests_today to 0 and day_start to the date of
\* the call before the limit check, so its answer is that of the minute
\* limit alone; called while a cooldown is active it returns false and
\* leaves the limiter, day_start and requests_today included, as it was.
C20_DayRolloverOutsideCooldown ==
    [][ (AttemptStep /\ Date(now) # rl.day_start) =>
            IF rl.in_cooldown /\ now < rl.cooldown_end_time
            THEN /\ ~cmr'.ret
                 /\ rl' = rl
            ELSE /\ cmr'.requests_today = 0
                 /\ rl'.day_start = Date(now)
                 /\ cmr'.ret = (cmr'.requests_this_minute
                                   < RATE_LIMITS.requests_per_minute)
      ]_vars

\* the daily limit was reached on one date; the can_make_request() of an
\* attempt on a later date found requests_today at the limit, set it to 0
\* and returned true, and the call is in flight
C20_Witness ==
    /\ pc = "call"
    /\ cmr.ret
    /\ cmr.at = now
    /\ cmr.requests_today_before = RATE_LIMITS.requests_per_day
    /\ cmr.requests_today = 0
    /\ rl.day_start = Date(now)
    /\ rl.requests_today = 1

\* C21: record_error("network") adds exactly one to
\* consecutive_network_errors, record_error with a type that is neither
\* "network" nor "rate_limit" sets it to 0, and neither changes
\* rate_limit_errors, in_cooldown, cooldown_end_time, requests_this_minute,
\* requests_today or last_request_time.
C21_RecordErrorFrame ==
    [][ ( /\ budget' # budget
          /\ ret'.op = "record_error"
          /\ ret'.error_type # "rate_limit" ) =>
            /\ rl'.consecutive_network_errors =
                  IF ret'.error_type = "network"
                  THEN rl.consecutive_network_errors + 1
                  ELSE 0
            /\ rl'.rate_limit_errors = rl.rate_limit_errors
            /\ rl'.in_cooldown = rl.in_cooldown
            /\ rl'.cooldown_end_time = rl.cooldown_end_time
            /\ rl'.requests_this_minute = rl.requests_this_minute
            /\ rl'.requests_today = rl.requests_today
            /\ rl'.last_request_time = rl.last_request_time
      ]_vars

\* in a cooldown and after a network error, a record_error("general") has
\* ended the streak of network errors and left the cooldown in place
C21_Witness ==
    /\ ret = [op |-> "record_error", error_type |-> "general"]
    /\ rl.network_errors = 1
    /\ rl.consecutive_network_errors = 0
    /\ rl.rate_limit_errors = 1
    /\ rl.in_cooldown

\* C22: driven by get_ai_response, consecutive_network_errors counts the
\* calls that failed in the network or the 503 branch since the last call
\* that returned: it starts at 0, a call that fails in one of these two
\* branches adds one, a call that returns sets it to 0, and every other
\* step (a 429, a token-limit or other error, an attempt, the passing of
\* time) leaves it.
C22_NetworkStreak ==
    /\ rl.consecutive_network_errors = 0
    /\ [][ rl'.consecutive_network_errors =
             IF pc = "call" /\ pc' # "call"
             THEN IF raised'.branch \in {"network", "service_unavailable"}
                  THEN rl.consecutive_network_errors + 1
                  ELSE IF raised'.branch = "none"
                  THEN 0
                  ELSE rl.consecutive_network_errors
             ELSE rl.consecutive_network_errors
       ]_vars

\* one invocation: a timeout, a 429 and a 503; the streak stands at 2
C22_Witness ==
    /\ pc = "idle"
    /\ inv.calls = 3
    /\ inv.errors = {"network", "rate_limit", "service_unavailable"}
    /\ raised.branch = "service_unavailable"
    /\ rl.rate_limit_errors = 1
    /\ rl.consecutive_network_errors = 2

C24_StatusReadOnly ==
    [][ (budget' # budget /\ ret'.op = "get_rate_limit_status") =>
            /\ rl' = rl
            /\ ret'.value.cooldown_remaining >= 0
            /\ ret'.value.minute_reset_in >= 0
            /\ ret'.value.minute_reset_in <= 60
            /\ ret'.value.in_cooldown = rl.in_cooldown
            /\ ret'.value.requests_this_minute = rl.requests_this_minute
            /\ ret'.value.requests_today = rl.requests_today
      ]_vars

\* the status was read a day after a cooldown began: the cooldown is over,
\* still set in the limiter, and reported with nothing remaining
C24_Witness ==
    /\ ret.op = "get_rate_limit_status"
    /\ rl.in_cooldown
    /\ rl.cooldown_end_time < now
    /\ Date(now) # rl.day_start
    /\ ret.value.in_cooldown
    /\ ret.value.cooldown_remaining = 0

\* C25: driven through get_ai_response only, the limiter always has
\* 0 <= requests_this_minute <= requests_per_minute and
\* 0 <= requests_today <= requests_per_day.
C25_CountersWithinLimits ==
    /\ rl.requests_this_minute >= 0
    /\ rl.requests_this_minute <= RATE_LIMITS.requests_per_minute
    /\ rl.requests_today >= 0
    /\ rl.requests_today <= RATE_LIMITS.requests_per_day

\* both counters stand at their limits with a call in flight
C25_Witness ==
    /\ pc = "call"
    /\ rl.requests_this_minute = RATE_LIMITS.requests_per_minute
    /\ rl.requests_today = RATE_LIMITS.requests_per_day
    /\ day_calls.n = RATE_LIMITS.requests_per_day

\* C26: the error is recorded before the backoff is computed, so the factor
\* is at least 1 on every attempt: a sleep after a failure of the network
\* branch is never below network_retry_delay * backoff_factor, and a sleep
\* after a failure of the 503 branch never below
\* min(service_unavailable_backoff * backoff_factor ^ 2, max_backoff).
C26_BackoffFloor ==
    /\ slept.after = "network" =>
          slept.s >= (RATE_LIMITS.network_retry_delay * MS
                         * RATE_LIMITS.backoff_factor[1])
                       \div RATE_LIMITS.backoff_factor[2]
    /\ slept.after = "service_unavailable" =>
          slept.s >= Min((RATE_LIMITS.service_unavailable_backoff * MS
                             * RATE_LIMITS.backoff_factor[1]
                             * RATE_LIMITS.backoff_factor[1])
                           \div (RATE_LIMITS.backoff_factor[2]
                                   * RATE_LIMITS.backoff_factor[2]),
                         RATE_LIMITS.max_backoff * MS)

\* the first call of an invocation failed in the network branch with no
\* network error before it, and the invocation slept the floor, 25 s
C26_Witness ==
    /\ pc = "attempt"
    /\ attempt = 1
    /\ raised.branch = "network"
    /\ rl.consecutive_network_errors = 1
    /\ slept = [s |-> 25 * MS, after |-> "network"]

\* C27: an attempt that finds the limiter out of a cooldown, with
\* requests_this_minute below its limit and requests_today at or above its
\* limit, and is refused, changes no field of the limiter, issues no call
\* and sleeps for no time: it goes on to the next attempt at the same
\* instant or, if it is the last, returns the failure.
C27_DailyLimitChangesNothing ==
    [][ ( /\ AttemptStep
          /\ ~rl.in_cooldown
          /\ rl.requests_this_minute < RATE_LIMITS.requests_per_minute
          /\ rl.requests_today >= RATE_LIMITS.requests_per_day
          /\ ~cmr'.ret ) =>
            /\ rl' = rl
            /\ now' = now
            /\ inv'.calls = inv.calls
            /\ IF attempt < max_retries - 1
               THEN pc' = "attempt" /\ attempt' = attempt + 1
               ELSE pc' = "idle" /\ result' = "None"
      ]_vars

\* C27, amended: such an attempt issues no call, sleeps for no time and
\* goes on to the next attempt or, if it is the last, returns the failure;
\* the one field of the limiter it can change is requests_this_minute,
\* which its can_make_request() sets to 0 when 60 seconds or more have
\* passed since last_request_time; get_wait_time() returns 0.
C27_DailyLimitSpinsThrough ==
    [][ ( /\ AttemptStep
          /\ ~rl.in_cooldown
          /\ rl.requests_this_minute < RATE_LIMITS.requests_per_minute
          /\ rl.requests_today >= RATE_LIMITS.requests_per_day
          /\ ~cmr'.ret ) =>
            /\ rl' = [rl EXCEPT !.requests_this_minute =
                         IF now - rl.last_request_time >= 60 * MS
                         THEN 0 ELSE rl.requests_this_minute]
            /\ now' = now
            /\ inv'.calls = inv.calls
            /\ IF attempt < max_retries - 1
               THEN /\ pc' = "attempt"
                    /\ attempt' = attempt + 1
                    /\ slept' = [s |-> 0, after |-> "refused"]
               ELSE pc' = "idle" /\ result' = "None"
      ]_vars

\* an invocation with max_retries = 3 found the daily limit reached and
\* nothing else in the way; its three attempts were refused at one instant
\* and it returned the failure without a call
C27_Witness ==
    /\ pc = "idle"
    /\ result = "None"
    /\ max_retries = 3
    /\ inv = [calls |-> 0, refused |-> 3, errors |-> {}]
    /\ slept = [s |-> 0, after |-> "refused"]
    /\ now = StartTime
    /\ ~rl.in_cooldown
    /\ rl.requests_today = RATE_LIMITS.requests_per_day
    /\ rl.requests_this_minute < RATE_LIMITS.requests_per_minute

(***************************************************************************)
(* C28: get_wait_time() never returns a negative number of seconds, in     *)
(* the class of utils/rate_limiter.py and in the class of the page, in     *)
(* every state: also when requests_this_minute is at its limit and more    *)
(* than 60 seconds have passed since last_request_time with no             *)
(* can_make_request() in between.                                          *)
(* The class of the page clamps at 0; the class of utils/rate_limiter.py   *)
(* returns 60 - .seconds as it is, which is negative in that state.        *)
(***************************************************************************)
C28_WaitTimeNonNegative ==
    ret.op = "get_wait_time" => ret.value >= 0 /\ ret.utils >= 0

(***************************************************************************)
(* C29: with the same limits and no error recorded, the two classes agree: *)
(* every can_make_request() returns the same value from both, and after    *)
(* every step both hold the same requests_this_minute, requests_today,     *)
(* last_request_time and day_start.                                        *)
(***************************************************************************)
C29_VariantsAgree ==
    /\ ul.requests_this_minute = rl.requests_this_minute
    /\ ul.requests_today = rl.requests_today
    /\ ul.last_request_time = rl.last_request_time
    /\ ul.day_start = rl.day_start
    /\ ret.op = "can_make_request" => ret.value = ret.utils

\* Both classes refuse at the minute limit a whole day after the last
\* request, the case where the seconds component of the elapsed time, which
\* both read, differs from the elapsed time.
C29_Witness ==
    /\ ret.op = "can_make_request"
    /\ ret.value = FALSE
    /\ ret.utils = FALSE
    /\ rl.requests_this_minute = requests_per_minute
    /\ rl.requests_today = 0
    /\ now - rl.last_request_time >= SecondsPerDay * MS

(***************************************************************************)
(* C30: whichever way initChart fails (the container is missing, it has no *)
(* size, building the chart throws), initChart is scheduled again at most  *)
(* MAX_ATTEMPTS times.                                                     *)
(* initializationAttempts grows only when the container has no size, so a  *)
(* missing container or a throwing build schedules initChart without end.  *)
(***************************************************************************)
C30_RetriesBounded == chart.scheduled <= MAX_ATTEMPTS

====
